---- MODULE Spec2Model ----
(***************************************************************************)
(* Fixed-layout record arrays of the Overture -> Valhalla writer:          *)
(* struct OSMWay / OSMNode / OSMWayNode (c_code/valhalla.h) and the array  *)
(* lifecycle, bulk file I/O, accessors and default-populating constructors *)
(* of c/osmway.c and c/osmdata.c.                                          *)
(*                                                                         *)
(* Memory is modelled at byte granularity.  A record is a sequence of      *)
(* sizeof(T) bytes; an array is a sequence of records; a file is a flat    *)
(* sequence of bytes.  Fields are located by the x86-64 System V layout    *)
(* rule applied to the declarations of valhalla.h (little-endian, bit      *)
(* fields packed from the least significant bit of their storage unit).    *)
(* A uint64_t argument is its 8 little-endian bytes, so no value exceeds   *)
(* the model checker's integer range.                                      *)
(***************************************************************************)
EXTENDS Integers, Sequences, FiniteSets, TLC

\* ------------------------------------------------------------------ bounds

\* Largest array length (record count) a worker allocates.
MaxCount == 2

\* ----------------------------------------------------- record declarations
\* One entry per member, in declaration order:
\*   << name, bits of the declared type, bits of the member, is a bit field >>

\* struct OSMWay
OSMWayDecl == <<
    <<"osmwayid_", 64, 64, FALSE>>, <<"ref_index_", 32, 32, FALSE>>,
    <<"ref_lang_index_", 32, 32, FALSE>>, <<"ref_left_index_", 32, 32, FALSE>>,
    <<"ref_left_lang_index_", 32, 32, FALSE>>, <<"ref_right_index_", 32, 32, FALSE>>,
    <<"ref_right_lang_index_", 32, 32, FALSE>>, <<"int_ref_index_", 32, 32, FALSE>>,
    <<"int_ref_lang_index_", 32, 32, FALSE>>, <<"int_ref_left_index_", 32, 32, FALSE>>,
    <<"int_ref_left_lang_index_", 32, 32, FALSE>>, <<"int_ref_right_index_", 32, 32, FALSE>>,
    <<"int_ref_right_lang_index_", 32, 32, FALSE>>, <<"name_index_", 32, 32, FALSE>>,
    <<"name_lang_index_", 32, 32, FALSE>>, <<"name_left_index_", 32, 32, FALSE>>,
    <<"name_left_lang_index_", 32, 32, FALSE>>, <<"name_right_index_", 32, 32, FALSE>>,
    <<"name_right_lang_index_", 32, 32, FALSE>>, <<"name_forward_index_", 32, 32, FALSE>>,
    <<"name_forward_lang_index_", 32, 32, FALSE>>, <<"name_backward_index_", 32, 32, FALSE>>,
    <<"name_backward_lang_index_", 32, 32, FALSE>>, <<"alt_name_index_", 32, 32, FALSE>>,
    <<"alt_name_lang_index_", 32, 32, FALSE>>, <<"alt_name_left_index_", 32, 32, FALSE>>,
    <<"alt_name_left_lang_index_", 32, 32, FALSE>>, <<"alt_name_right_index_", 32, 32, FALSE>>,
    <<"alt_name_right_lang_index_", 32, 32, FALSE>>, <<"official_name_index_", 32, 32, FALSE>>,
    <<"official_name_lang_index_", 32, 32, FALSE>>,
    <<"official_name_left_index_", 32, 32, FALSE>>,
    <<"official_name_left_lang_index_", 32, 32, FALSE>>,
    <<"official_name_right_index_", 32, 32, FALSE>>,
    <<"official_name_right_lang_index_", 32, 32, FALSE>>,
    <<"tunnel_name_index_", 32, 32, FALSE>>, <<"tunnel_name_lang_index_", 32, 32, FALSE>>,
    <<"tunnel_name_left_index_", 32, 32, FALSE>>,
    <<"tunnel_name_left_lang_index_", 32, 32, FALSE>>,
    <<"tunnel_name_right_index_", 32, 32, FALSE>>,
    <<"tunnel_name_right_lang_index_", 32, 32, FALSE>>,
    <<"fwd_turn_lanes_index_", 32, 32, FALSE>>, <<"bwd_turn_lanes_index_", 32, 32, FALSE>>,
    <<"fwd_jct_base_index_", 32, 32, FALSE>>, <<"bwd_jct_base_index_", 32, 32, FALSE>>,
    <<"fwd_jct_overlay_index_", 32, 32, FALSE>>, <<"bwd_jct_overlay_index_", 32, 32, FALSE>>,
    <<"fwd_signboard_base_index_", 32, 32, FALSE>>,
    <<"bwd_signboard_base_index_", 32, 32, FALSE>>, <<"destination_index_", 32, 32, FALSE>>,
    <<"destination_lang_index_", 32, 32, FALSE>>,
    <<"destination_forward_index_", 32, 32, FALSE>>,
    <<"destination_backward_index_", 32, 32, FALSE>>,
    <<"destination_forward_lang_index_", 32, 32, FALSE>>,
    <<"destination_backward_lang_index_", 32, 32, FALSE>>,
    <<"destination_ref_index_", 32, 32, FALSE>>,
    <<"destination_ref_lang_index_", 32, 32, FALSE>>,
    <<"destination_ref_to_index_", 32, 32, FALSE>>,
    <<"destination_ref_to_lang_index_", 32, 32, FALSE>>,
    <<"destination_int_ref_index_", 32, 32, FALSE>>,
    <<"destination_int_ref_to_index_", 32, 32, FALSE>>,
    <<"destination_street_index_", 32, 32, FALSE>>,
    <<"destination_street_lang_index_", 32, 32, FALSE>>,
    <<"destination_street_to_index_", 32, 32, FALSE>>,
    <<"destination_street_to_lang_index_", 32, 32, FALSE>>,
    <<"junction_name_index_", 32, 32, FALSE>>, <<"junction_name_lang_index_", 32, 32, FALSE>>,
    <<"junction_ref_index_", 32, 32, FALSE>>, <<"junction_ref_lang_index_", 32, 32, FALSE>>,
    <<"level_index_", 32, 32, FALSE>>, <<"level_ref_index_", 32, 32, FALSE>>,
    <<"duration_", 32, 32, FALSE>>, <<"destination_only_", 32, 1, TRUE>>,
    <<"no_thru_traffic_", 32, 1, TRUE>>, <<"oneway_", 32, 1, TRUE>>,
    <<"oneway_reverse_", 32, 1, TRUE>>, <<"roundabout_", 32, 1, TRUE>>,
    <<"ferry_", 32, 1, TRUE>>, <<"rail_", 32, 1, TRUE>>, <<"surface_", 32, 3, TRUE>>,
    <<"tunnel_", 32, 1, TRUE>>, <<"toll_", 32, 1, TRUE>>, <<"bridge_", 32, 1, TRUE>>,
    <<"seasonal_", 32, 1, TRUE>>, <<"drive_on_right_", 32, 1, TRUE>>,
    <<"bike_network_", 32, 4, TRUE>>, <<"exit_", 32, 1, TRUE>>,
    <<"tagged_speed_", 32, 1, TRUE>>, <<"forward_tagged_speed_", 32, 1, TRUE>>,
    <<"backward_tagged_speed_", 32, 1, TRUE>>, <<"tagged_lanes_", 32, 1, TRUE>>,
    <<"forward_tagged_lanes_", 32, 1, TRUE>>, <<"backward_tagged_lanes_", 32, 1, TRUE>>,
    <<"truck_route_", 32, 1, TRUE>>, <<"sidewalk_right_", 32, 1, TRUE>>,
    <<"sidewalk_left_", 32, 1, TRUE>>, <<"sac_scale_", 32, 3, TRUE>>,
    <<"road_class_", 32, 3, TRUE>>, <<"link_", 32, 1, TRUE>>, <<"use_", 32, 6, TRUE>>,
    <<"lanes_", 32, 4, TRUE>>, <<"forward_lanes_", 32, 4, TRUE>>,
    <<"backward_lanes_", 32, 4, TRUE>>, <<"turn_channel_", 32, 1, TRUE>>,
    <<"wheelchair_", 32, 1, TRUE>>, <<"wheelchair_tag_", 32, 1, TRUE>>,
    <<"has_user_tags_", 32, 1, TRUE>>, <<"has_pronunciation_tags_", 32, 1, TRUE>>,
    <<"internal_", 32, 1, TRUE>>, <<"hov_type_", 32, 1, TRUE>>, <<"indoor_", 32, 1, TRUE>>,
    <<"pedestrian_forward_", 32, 1, TRUE>>, <<"pedestrian_backward_", 32, 1, TRUE>>,
    <<"auto_forward_", 16, 1, TRUE>>, <<"bus_forward_", 16, 1, TRUE>>,
    <<"taxi_forward_", 16, 1, TRUE>>, <<"truck_forward_", 16, 1, TRUE>>,
    <<"motorcycle_forward_", 16, 1, TRUE>>, <<"emergency_forward_", 16, 1, TRUE>>,
    <<"hov_forward_", 16, 1, TRUE>>, <<"moped_forward_", 16, 1, TRUE>>,
    <<"auto_backward_", 16, 1, TRUE>>, <<"bus_backward_", 16, 1, TRUE>>,
    <<"taxi_backward_", 16, 1, TRUE>>, <<"truck_backward_", 16, 1, TRUE>>,
    <<"motorcycle_backward_", 16, 1, TRUE>>, <<"emergency_backward_", 16, 1, TRUE>>,
    <<"hov_backward_", 16, 1, TRUE>>, <<"moped_backward_", 16, 1, TRUE>>,
    <<"cycle_lane_right_", 16, 2, TRUE>>, <<"cycle_lane_left_", 16, 2, TRUE>>,
    <<"cycle_lane_right_opposite_", 16, 1, TRUE>>, <<"cycle_lane_left_opposite_", 16, 1, TRUE>>,
    <<"shoulder_right_", 16, 1, TRUE>>, <<"shoulder_left_", 16, 1, TRUE>>,
    <<"dismount_", 16, 1, TRUE>>, <<"use_sidepath_", 16, 1, TRUE>>,
    <<"bike_forward_", 16, 1, TRUE>>, <<"bike_backward_", 16, 1, TRUE>>,
    <<"lit_", 16, 1, TRUE>>, <<"destination_only_hgv_", 16, 1, TRUE>>,
    <<"spare2_", 16, 2, TRUE>>, <<"nodecount_", 16, 16, FALSE>>,
    <<"speed_limit_", 8, 8, FALSE>>, <<"speed_", 8, 8, FALSE>>,
    <<"backward_speed_", 8, 8, FALSE>>, <<"forward_speed_", 8, 8, FALSE>>,
    <<"truck_speed_", 8, 8, FALSE>>, <<"truck_speed_forward_", 8, 8, FALSE>>,
    <<"truck_speed_backward_", 8, 8, FALSE>>, <<"layer_", 8, 8, FALSE>>
    >>

\* struct OSMNode
OSMNodeDecl == <<
    <<"osmid_", 64, 64, FALSE>>, <<"name_index_", 64, 21, TRUE>>,
    <<"ref_index_", 64, 21, TRUE>>, <<"exit_to_index_", 64, 21, TRUE>>,
    <<"named_intersection_", 64, 1, TRUE>>, <<"country_iso_index_", 64, 21, TRUE>>,
    <<"state_iso_index_", 64, 21, TRUE>>, <<"traffic_signal_", 64, 1, TRUE>>,
    <<"forward_signal_", 64, 1, TRUE>>, <<"backward_signal_", 64, 1, TRUE>>,
    <<"stop_sign_", 64, 1, TRUE>>, <<"forward_stop_", 64, 1, TRUE>>,
    <<"backward_stop_", 64, 1, TRUE>>, <<"yield_sign_", 64, 1, TRUE>>,
    <<"forward_yield_", 64, 1, TRUE>>, <<"backward_yield_", 64, 1, TRUE>>,
    <<"minor_", 64, 1, TRUE>>, <<"direction_", 64, 1, TRUE>>, <<"spare_", 64, 11, TRUE>>,
    <<"access_", 32, 12, TRUE>>, <<"type_", 32, 4, TRUE>>, <<"intersection_", 32, 1, TRUE>>,
    <<"non_link_edge_", 32, 1, TRUE>>, <<"link_edge_", 32, 1, TRUE>>,
    <<"shortlink_", 32, 1, TRUE>>, <<"non_ferry_edge_", 32, 1, TRUE>>,
    <<"ferry_edge_", 32, 1, TRUE>>, <<"flat_loop_", 32, 1, TRUE>>, <<"urban_", 32, 1, TRUE>>,
    <<"tagged_access_", 32, 1, TRUE>>, <<"private_access_", 32, 1, TRUE>>,
    <<"cash_only_toll_", 32, 1, TRUE>>, <<"spare1_", 32, 5, TRUE>>,
    <<"bss_info_", 32, 32, FALSE>>, <<"linguistic_info_index_", 32, 32, FALSE>>,
    <<"lng7_", 32, 32, FALSE>>, <<"lat7_", 32, 32, FALSE>>
    >>

\* struct OSMWayNode: the two members that follow the embedded struct OSMNode.
OSMWayNodeDecl == <<
    <<"way_index", 32, 32, FALSE>>, <<"way_shape_node_index", 32, 32, FALSE>>
    >>

\* ------------------------------------------------------------ record layout

AlignUp(bit, unit) == ((bit + unit - 1) \div unit) * unit

\* Bit offset of member d when the members before it end at `bit`: a plain
\* member is aligned to its type; a bit field is packed after its predecessor
\* unless it would straddle a storage unit of its declared type.
Place(bit, d) ==
    IF d[4] /\ (bit \div d[2]) = ((bit + d[3] - 1) \div d[2])
    THEN bit
    ELSE AlignUp(bit, d[2])

\* Members lo..hi of `decl` laid out from bit `bit`: the placed members and
\* the bit after the last one.
RECURSIVE LayoutRange(_, _, _, _)
LayoutRange(decl, lo, hi, bit) ==
    IF lo = hi
    THEN LET off == Place(bit, decl[lo])
         IN  [fields |-> << [name |-> decl[lo][1], off |-> off, width |-> decl[lo][3]] >>,
              end |-> off + decl[lo][3]]
    ELSE LET mid == (lo + hi) \div 2
             left == LayoutRange(decl, lo, mid, bit)
             right == LayoutRange(decl, mid + 1, hi, left.end)
         IN  [fields |-> left.fields \o right.fields, end |-> right.end]

LayoutFrom(decl, bit) == LayoutRange(decl, 1, Len(decl), bit).fields

\* Bits of a struct whose members are laid out as `layout`; both record types
\* hold a uint64_t, so the struct is padded to a multiple of 64 bits.
StructBits(layout) ==
    AlignUp(layout[Len(layout)].off + layout[Len(layout)].width, 64)

OSMWayLayout == LayoutFrom(OSMWayDecl, 0)
OSMNodeLayout == LayoutFrom(OSMNodeDecl, 0)
SizeofOSMWay == StructBits(OSMWayLayout) \div 8
SizeofOSMNode == StructBits(OSMNodeLayout) \div 8
\* struct OSMNode node; uint32_t way_index; uint32_t way_shape_node_index;
OSMWayNodeLayout ==
    OSMNodeLayout \o LayoutFrom(OSMWayNodeDecl, 8 * SizeofOSMNode)
SizeofOSMWayNode == StructBits(OSMWayNodeLayout) \div 8

FieldOf(layout, name) ==
    layout[CHOOSE k \in 1..Len(layout) : layout[k].name = name]

WayField(name) == FieldOf(OSMWayLayout, name)
WayNodeField(name) == FieldOf(OSMWayNodeLayout, name)
\* The embedded node as one member of struct OSMWayNode.
NodeMember == [name |-> "node", off |-> 0, width |-> 8 * SizeofOSMNode]

\* --------------------------------------------------------- bytes and values

Zeros(n) == [k \in 1..n |-> 0]
Fill(n, b) == [k \in 1..n |-> b]

\* A uint64_t below 2^31, as its 8 little-endian bytes.
U64(n) ==
    << n % 256, (n \div 256) % 256, (n \div 65536) % 256,
       (n \div 16777216) % 256, 0, 0, 0, 0 >>

\* Bit k (0-based) of a little-endian byte sequence.
Bit(bytes, k) == (bytes[(k \div 8) + 1] \div (2 ^ (k % 8))) % 2

\* Bit p of a record after `rec.f = v`: the value is converted to the member's
\* width (its low f.width bits) and only the member's bits change.
AssignedBit(rec, f, v, p) ==
    IF p >= f.off /\ p < f.off + f.width THEN Bit(v, p - f.off) ELSE Bit(rec, p)

AssignedByte(rec, f, v, b) ==
      AssignedBit(rec, f, v, 8 * b)
    + 2 * AssignedBit(rec, f, v, 8 * b + 1)
    + 4 * AssignedBit(rec, f, v, 8 * b + 2)
    + 8 * AssignedBit(rec, f, v, 8 * b + 3)
    + 16 * AssignedBit(rec, f, v, 8 * b + 4)
    + 32 * AssignedBit(rec, f, v, 8 * b + 5)
    + 64 * AssignedBit(rec, f, v, 8 * b + 6)
    + 128 * AssignedBit(rec, f, v, 8 * b + 7)

RECURSIVE AssignFrom(_, _, _, _, _)
AssignFrom(rec, f, v, b, lastb) ==
    IF b > lastb THEN rec
    ELSE AssignFrom([rec EXCEPT ![b + 1] = AssignedByte(rec, f, v, b)],
                    f, v, b + 1, lastb)

\* A store that does not convert v to the member's type: all 64 bits of v are
\* written from the member's first bit on (as far as the record reaches).
AssignWide(rec, f, v) ==
    LET bits == IF 8 * Len(rec) - f.off < 64 THEN 8 * Len(rec) - f.off ELSE 64
        g == [f EXCEPT !.width = bits]
    IN  AssignFrom(rec, g, v, g.off \div 8, (g.off + g.width - 1) \div 8)

\* rec.f = v for a uint64_t v.
Assign(rec, f, v) ==
    AssignFrom(rec, f, v, f.off \div 8, (f.off + f.width - 1) \div 8)

\* Reading a member: every bit of it is zero.
FieldZero(rec, f) ==
    \A k \in 0..(f.width - 1) : Bit(rec, f.off + k) = 0

\* ------------------------------------------------------------ input values

\* uint64_t arguments at and beyond the widths of the members they are
\* stored in: 2^64 - 1, 2^32 + 8, 2^16 + 4, 2^32 + 6, 2^32 + 9.
Max64 == Fill(8, 255)
Big32p8 == << 8, 0, 0, 0, 1, 0, 0, 0 >>
Big16p4 == << 4, 0, 1, 0, 0, 0, 0, 0 >>
Big32p6 == << 6, 0, 0, 0, 1, 0, 0, 0 >>
Big32p9 == << 9, 0, 0, 0, 1, 0, 0, 0 >>

\* << osmid, name_index, nodecount >> the producer passes for a way.
WayArgs == { << U64(42), U64(7), U64(3) >>, << Max64, Big32p8, Big16p4 >> }

\* << way_index, way_shape_node_index, osmid, lng7, lat7, intersection >>
WayNodeArgs ==
    { << U64(5), Big32p9, U64(1001), U64(1800000000), U64(900000000), U64(1) >>,
      << Big32p6, U64(2), Max64, Big32p8, U64(77), U64(0) >> }

\* The argument tuples used where arrays are populated only to be written out.
IOWayArgs == { << Max64, Big32p8, Big16p4 >> }
IOWayNodeArgs == { << Big32p6, U64(2), Max64, Big32p8, U64(77), U64(1) >> }

\* struct OSMNode values a caller passes to osmwaynode_set_node: one whose
\* bytes, padding included, are non-zero and distinct, one with every bit set.
Nodes == { [k \in 1..SizeofOSMNode |-> 100 + k], Fill(SizeofOSMNode, 255) }

\* Destinations: one in an existing directory, one that fopen cannot open.
Paths == { "out.bin", "/missing/out.bin" }
Openable == { "out.bin" }

\* Contents malloc may hand back before the block is written.
Indeterminate == { 0, 205 }
\* Contents of the memory that lies after the array: other objects' bytes.
AdjacentBytes(size) == Fill(size, 170)
\* A record a producer fills itself, with every bit of every member set.
ProducerRecord(size) == Fill(size, 255)

\* ------------------------------------------------------------------- state

VARIABLES
    T,          \* record type of the worker's array: "OSMWay" or "OSMWayNode"
    s,          \* the array: a sequence of records, each sizeof(T) bytes
    allocated,  \* s is a live allocation
    adjacent,   \* sizeof(T) bytes of the memory that follows the array
    files,      \* path -> [exists, bytes]
    value,      \* the caller's struct OSMNode written by osmwaynode_get_node
    last,       \* the last call: its arguments, return value and out-parameters
    exported,   \* the last export that opened its file: the records handed to
                \* it, the bytes it wrote, whether it replaced a longer file
    pc          \* "ok", "crashed" (the process died), "ub" (undefined behaviour ran on)

vars == << T, s, allocated, adjacent, files, value, last, exported, pc >>

Sizeof(t) == IF t = "OSMWay" THEN SizeofOSMWay ELSE SizeofOSMWayNode

NoCall ==
    [op |-> "none", index |-> 0, n |-> 0, path |-> "", arg |-> << >>,
     ret |-> {}, buffer |-> << >>, count |-> 0]

Call(op, index, n, path, arg) ==
    [NoCall EXCEPT !.op = op, !.index = index, !.n = n, !.path = path, !.arg = arg]

Init ==
    /\ T \in { "OSMWay", "OSMWayNode" }
    /\ s = << >>
    /\ allocated = FALSE
    /\ adjacent = AdjacentBytes(Sizeof(T))
    /\ files = [p \in Paths |-> [exists |-> FALSE, bytes |-> << >>]]
    /\ value = Zeros(SizeofOSMNode)
    /\ last = NoCall
    /\ exported = [n |-> 0, recs |-> << >>, written |-> 0, shrunk |-> FALSE]
    /\ pc = "ok"

\* ------------------------------------------------------- libc, as it is used

\* malloc(size * n): NULL, or a block of n records of indeterminate content.
Malloc(size, n) ==
    { [ok |-> FALSE, mem |-> << >>] }
    \cup { [ok |-> TRUE, mem |-> [i \in 1..n |-> Fill(size, g)]] : g \in Indeterminate }

\* memset(arr + first, 0, n): the byte count given as the record count.
MemsetCountBytes(arr, first, n, size) ==
    [i \in 1..Len(arr) |->
        [k \in 1..size |->
            IF (i - 1) * size + k > first * size /\ (i - 1) * size + k <= first * size + n
            THEN 0 ELSE arr[i][k]]]

\* memset(arr + first, 0, size * n)
Memset(arr, first, n, size) ==
    [i \in 1..Len(arr) |-> IF i > first /\ i <= first + n THEN Zeros(size) ELSE arr[i]]

\* memcpy(&rec + off, bytes, Len(bytes)) within one record.
Memcpy(rec, off, bytes) ==
    [k \in 1..Len(rec) |->
        IF k > off /\ k <= off + Len(bytes) THEN bytes[k - off] ELSE rec[k]]

\* The bytes of n back-to-back records, as fwrite streams them.
Flatten(recs, size) ==
    [k \in 1..(Len(recs) * size) |-> recs[((k - 1) \div size) + 1][((k - 1) % size) + 1]]

\* fread(buffer, 1, n, inFile): n bytes instead of n records; the rest of the
\* freshly allocated buffer keeps what malloc left in it.
FreadBytes(bytes, size, n) ==
    [i \in 1..n |-> [k \in 1..size |->
        IF (i - 1) * size + k <= n THEN bytes[(i - 1) * size + k] ELSE 205]]

\* fread(buffer, size, n, inFile) from the start of a file of at least size * n bytes.
Fread(bytes, size, n) ==
    [i \in 1..n |-> [k \in 1..size |-> bytes[(i - 1) * size + k]]]

\* Byte counts a write of `total` bytes can stop at when the device fills up:
\* here, one byte short of the last record.
ShortWrites(total) == { w \in { total - 1 } : w >= 0 }

\* fopen(fileName, "r+b")-like writing: the bytes of an existing file beyond
\* the ones written are kept.
WriteFileKeep(path, n, w, size) ==
    [files EXCEPT ![path] =
        [exists |-> TRUE,
         bytes |-> SubSeq(Flatten(SubSeq(s, 1, n), size), 1, w)
                   \o SubSeq(files[path].bytes, w + 1, Len(files[path].bytes))]]

\* fopen(fileName, "wb") on an openable path truncates the file; fwrite then
\* appends `w` of the bytes of the first n records; fclose.
WriteFile(path, n, w, size) ==
    [files EXCEPT ![path] =
        [exists |-> TRUE, bytes |-> SubSeq(Flatten(SubSeq(s, 1, n), size), 1, w)]]

\* The process is killed: its memory is gone, the files stay.
Crash(call) ==
    /\ pc' = "crashed"
    /\ last' = call
    /\ s' = << >>
    /\ allocated' = FALSE
    /\ value' = Zeros(SizeofOSMNode)
    /\ UNCHANGED << T, adjacent, files, exported >>

\* ------------------------------------------ array lifecycle, any record type

New(t, c) ==
    /\ pc = "ok" /\ T = t /\ ~allocated
    /\ \E m \in Malloc(Sizeof(t), c) :
         IF ~m.ok /\ c > 0
         THEN Crash(Call("new", 0, c, "", << >>))
         ELSE /\ s' = Memset(IF m.ok THEN m.mem ELSE << >>, 0, c, Sizeof(t))
              /\ allocated' = TRUE
              /\ last' = Call("new", 0, c, "", << >>)
              /\ UNCHANGED << T, adjacent, files, value, exported, pc >>

Free(t) ==
    /\ pc = "ok" /\ T = t /\ allocated
    /\ s' = << >>
    /\ allocated' = FALSE
    /\ last' = Call("free", 0, 0, "", << >>)
    /\ UNCHANGED << T, adjacent, files, value, exported, pc >>

Clear(t, n) ==
    /\ pc = "ok" /\ T = t /\ allocated
    /\ n \in 0..Len(s)
    /\ s' = Memset(s, 0, n, Sizeof(t))
    /\ last' = Call("clear", 0, n, "", << >>)
    /\ UNCHANGED << T, allocated, adjacent, files, value, exported, pc >>

Export(t, n, path) ==
    /\ pc = "ok" /\ T = t /\ allocated
    /\ n \in 0..Len(s)
    /\ IF path \notin Openable
       THEN \* fopen returned NULL; fwrite and fclose on a null stream
            \/ Crash(Call("export", 0, n, path, << >>))
            \/ /\ pc' = "ub"
               /\ last' = [Call("export", 0, n, path, << >>) EXCEPT !.ret = {1}]
               /\ UNCHANGED << T, s, allocated, adjacent, files, value, exported >>
       ELSE \E w \in { n * Sizeof(t) } \cup ShortWrites(n * Sizeof(t)) :
               /\ files' = WriteFile(path, n, w, Sizeof(t))
               /\ exported' = [n |-> n, recs |-> SubSeq(s, 1, n), written |-> w,
                                shrunk |-> Len(files[path].bytes) > w]
               /\ last' = [Call("export", 0, n, path, << >>) EXCEPT !.ret = {1}]
               /\ UNCHANGED << T, s, allocated, adjacent, value, pc >>

Import(t, path) ==
    /\ pc = "ok" /\ T = t
    /\ IF ~files[path].exists
       THEN \* fopen returned NULL; fseek, ftell, fread and fclose on a null stream
            \/ Crash(Call("import", 0, 0, path, << >>))
            \/ /\ pc' = "ub"
               /\ last' = Call("import", 0, 0, path, << >>)
               /\ UNCHANGED << T, s, allocated, adjacent, files, value, exported >>
       ELSE LET c == Len(files[path].bytes) \div Sizeof(t)
            IN  \E m \in Malloc(Sizeof(t), c) :
                  IF ~m.ok /\ c > 0
                  THEN Crash(Call("import", 0, 0, path, << >>))
                  ELSE /\ last' = [Call("import", 0, 0, path, << >>) EXCEPT
                                      !.count = c,
                                      !.buffer = Fread(files[path].bytes, Sizeof(t), c)]
                       /\ UNCHANGED << T, s, allocated, adjacent, files, value, exported, pc >>

\* ------------------------------------------------ members the code assigns

osmwayid_ == WayField("osmwayid_")
name_index_ == WayField("name_index_")
nodecount_ == WayField("nodecount_")
surface_ == WayField("surface_")
drive_on_right_ == WayField("drive_on_right_")
road_class_ == WayField("road_class_")
use_ == WayField("use_")
has_user_tags_ == WayField("has_user_tags_")
pedestrian_forward_ == WayField("pedestrian_forward_")
pedestrian_backward_ == WayField("pedestrian_backward_")
speed_ == WayField("speed_")
way_index == WayNodeField("way_index")
way_shape_node_index == WayNodeField("way_shape_node_index")
osmid_ == FieldOf(OSMNodeLayout, "osmid_")
lng7_ == FieldOf(OSMNodeLayout, "lng7_")
lat7_ == FieldOf(OSMNodeLayout, "lat7_")
intersection_ == FieldOf(OSMNodeLayout, "intersection_")

\* ------------------------------------------------- access to s[index]

\* The record at s + index: a record of the array, or the memory after it.
At(index) == IF index < Len(s) THEN s[index + 1] ELSE adjacent

\* Writing `rec` at s + index. Beyond the array the store is undefined: the
\* process dies, or the bytes land in the memory that follows the array.
StoreAt(call, index, rec) ==
    IF index < Len(s)
    THEN /\ s' = [s EXCEPT ![index + 1] = rec]
         /\ last' = call
         /\ UNCHANGED << T, allocated, adjacent, files, value, exported, pc >>
    ELSE \/ Crash(call)
         \/ /\ adjacent' = rec
            /\ pc' = "ub"
            /\ last' = call
            /\ UNCHANGED << T, s, allocated, files, value, exported >>

\* ------------------------------------------------------------- c/osmway.c

\* osmway_set_to_valhalla without its memset: members it does not assign
\* keep what the slot held.
WayToValhallaNoMemset(rec, osmid, name_index, nodecount) ==
    LET r1 == Assign(rec, osmwayid_, osmid)
        r2 == Assign(r1, name_index_, name_index)
        r3 == Assign(r2, nodecount_, nodecount)
        r4 == Assign(r3, surface_, U64(3))
        r5 == Assign(r4, drive_on_right_, U64(1))
        r6 == Assign(r5, road_class_, U64(7))
        r7 == Assign(r6, use_, U64(25))
        r8 == Assign(r7, has_user_tags_, U64(0))
        r9 == Assign(r8, pedestrian_forward_, U64(1))
        r10 == Assign(r9, pedestrian_backward_, U64(1))
    IN  Assign(r10, speed_, U64(25))

\* The body of osmway_set_to_valhalla on the record at s + index.
WayToValhalla(rec, osmid, name_index, nodecount) ==
    LET r0 == Zeros(Len(rec))                      \* memset(s + index, 0, sizeof)
        r1 == Assign(r0, osmwayid_, osmid)
        r2 == Assign(r1, name_index_, name_index)
        r3 == Assign(r2, nodecount_, nodecount)
        r4 == Assign(r3, surface_, U64(3))
        r5 == Assign(r4, drive_on_right_, U64(1))
        r6 == Assign(r5, road_class_, U64(7))
        r7 == Assign(r6, use_, U64(25))
        r8 == Assign(r7, has_user_tags_, U64(0))
        r9 == Assign(r8, pedestrian_forward_, U64(1))
        r10 == Assign(r9, pedestrian_backward_, U64(1))
    IN  Assign(r10, speed_, U64(25))

osmway_new(c) == New("OSMWay", c)

osmway_free == Free("OSMWay")

osmway_clear(n) == Clear("OSMWay", n)

osmway_export(n, path) == Export("OSMWay", n, path)

osmway_import(path) == Import("OSMWay", path)

osmway_set_to_valhalla(index, a) ==
    /\ pc = "ok" /\ T = "OSMWay" /\ allocated
    /\ StoreAt(Call("set_to_valhalla", index, 0, "", a), index,
               WayToValhalla(At(index), a[1], a[2], a[3]))

\* ------------------------------------------------------------ c/osmdata.c

\* osmnode_set_to_valhalla(nodes, index, osmid, lng7, lat7, intersection) on
\* one struct OSMNode: every member zero but the four supplied.
osmnode_set_to_valhalla(node, osmid, lng7, lat7, intersection) ==
    LET n0 == Zeros(Len(node))
        n1 == Assign(n0, osmid_, osmid)
        n2 == Assign(n1, lng7_, lng7)
        n3 == Assign(n2, lat7_, lat7)
    IN  Assign(n3, intersection_, intersection)

\* The body of osmwaynode_set_to_valhalla on the record at s + index.
WayNodeToValhalla(rec, a) ==
    LET r0 == Zeros(Len(rec))                      \* memset(s + index, 0, sizeof)
        r1 == Assign(r0, way_index, a[1])
        r2 == Assign(r1, way_shape_node_index, a[2])
        node == SubSeq(r2, (NodeMember.off \div 8) + 1,
                       (NodeMember.off \div 8) + SizeofOSMNode)
    IN  Memcpy(r2, NodeMember.off \div 8,
               osmnode_set_to_valhalla(node, a[3], a[4], a[5], a[6]))

\* memcpy(&s[index].node, value, sizeof(value)): the size of the pointer.
SetNodePointerSize(rec, n) == Memcpy(rec, NodeMember.off \div 8, SubSeq(n, 1, 8))

\* memcpy(&s[index].node, value, sizeof(struct OSMWayNode)): the size of the
\* whole record, read past the end of the caller's node.
SetNodeWholeRecord(rec, n) ==
    Memcpy(rec, NodeMember.off \div 8, n \o Fill(SizeofOSMWayNode - SizeofOSMNode, 205))

\* memcpy(&s[index].node, value, sizeof(struct OSMNode)) on the record.
SetNode(rec, n) == Memcpy(rec, NodeMember.off \div 8, n)

\* memcpy(value, &s[index].node, sizeof(struct OSMNode)) from the record.
GetNode(rec) ==
    SubSeq(rec, (NodeMember.off \div 8) + 1, (NodeMember.off \div 8) + SizeofOSMNode)

osmwaynode_new(c) == New("OSMWayNode", c)

osmwaynode_free == Free("OSMWayNode")

osmwaynode_clear(n) == Clear("OSMWayNode", n)

osmwaynode_export(n, path) == Export("OSMWayNode", n, path)

osmwaynode_import(path) == Import("OSMWayNode", path)

osmwaynode_set_node(index, n) ==
    /\ pc = "ok" /\ T = "OSMWayNode" /\ allocated
    /\ StoreAt(Call("set_node", index, 0, "", n), index, SetNode(At(index), n))

osmwaynode_get_node(index) ==
    /\ pc = "ok" /\ T = "OSMWayNode" /\ allocated
    /\ IF index < Len(s)
       THEN /\ value' = GetNode(s[index + 1])
            /\ last' = Call("get_node", index, 0, "", << >>)
            /\ UNCHANGED << T, s, allocated, adjacent, files, exported, pc >>
       ELSE \* a read beyond the array: the process dies, or the caller is
            \* handed the bytes that follow the array
            \/ Crash(Call("get_node", index, 0, "", << >>))
            \/ /\ value' = GetNode(adjacent)
               /\ pc' = "ub"
               /\ last' = Call("get_node", index, 0, "", << >>)
               /\ UNCHANGED << T, s, allocated, adjacent, files, exported >>

osmwaynode_set_to_valhalla(index, a) ==
    /\ pc = "ok" /\ T = "OSMWayNode" /\ allocated
    /\ StoreAt(Call("set_to_valhalla", index, 0, "", a), index,
               WayNodeToValhalla(At(index), a))

\* ------------------------------------------------------------ the producer

\* The producer populating s[index] itself, member by member: here every
\* member, and every padding byte, gets all its bits set.
producer_write(index) ==
    /\ pc = "ok" /\ allocated
    /\ index < Len(s)
    /\ s' = [s EXCEPT ![index + 1] = ProducerRecord(Sizeof(T))]
    /\ last' = Call("producer_write", index, 0, "", << >>)
    /\ UNCHANGED << T, allocated, adjacent, files, value, exported, pc >>

\* ---------------------------------------------------------- specifications

\* In-memory operations: lifecycle, accessors, default population.
NextMem ==
    \/ \E c \in 0..MaxCount : osmway_new(c)
    \/ osmway_free
    \/ \E n \in 0..MaxCount : osmway_clear(n)
    \/ \E index \in 0..MaxCount, a \in WayArgs : osmway_set_to_valhalla(index, a)
    \/ \E c \in 0..MaxCount : osmwaynode_new(c)
    \/ osmwaynode_free
    \/ \E n \in 0..MaxCount : osmwaynode_clear(n)
    \/ \E index \in 0..MaxCount, n \in Nodes : osmwaynode_set_node(index, n)
    \/ \E index \in 0..MaxCount : osmwaynode_get_node(index)
    \/ \E index \in 0..MaxCount, a \in WayNodeArgs : osmwaynode_set_to_valhalla(index, a)
    \/ \E index \in 0..MaxCount : producer_write(index)

SpecMem == Init /\ [][NextMem]_vars

\* Bulk file I/O on arrays populated by the default-populating constructors.
NextIO ==
    \/ \E c \in 0..MaxCount : osmway_new(c)
    \/ osmway_free
    \/ \E index \in 0..MaxCount, a \in IOWayArgs : osmway_set_to_valhalla(index, a)
    \/ \E n \in 0..MaxCount, path \in Paths : osmway_export(n, path)
    \/ \E path \in Paths : osmway_import(path)
    \/ \E c \in 0..MaxCount : osmwaynode_new(c)
    \/ osmwaynode_free
    \/ \E index \in 0..MaxCount, a \in IOWayNodeArgs : osmwaynode_set_to_valhalla(index, a)
    \/ \E n \in 0..MaxCount, path \in Paths : osmwaynode_export(n, path)
    \/ \E path \in Paths : osmwaynode_import(path)

SpecIO == Init /\ [][NextIO]_vars

\* ------------------------------------------------------ reading the records

Layout(t) == IF t = "OSMWay" THEN OSMWayLayout ELSE OSMWayNodeLayout

AllFieldsZero(rec, layout) ==
    \A k \in 1..Len(layout) : FieldZero(rec, layout[k])

\* Bit p of member f, zero beyond its width.
MemberBit(rec, f, p) == IF p < f.width THEN Bit(rec, f.off + p) ELSE 0

\* The value of member f, zero-extended to a uint64_t (8 little-endian bytes).
FieldAsU64(rec, f) ==
    [b \in 1..8 |->
          MemberBit(rec, f, 8 * (b - 1))
        + 2 * MemberBit(rec, f, 8 * (b - 1) + 1)
        + 4 * MemberBit(rec, f, 8 * (b - 1) + 2)
        + 8 * MemberBit(rec, f, 8 * (b - 1) + 3)
        + 16 * MemberBit(rec, f, 8 * (b - 1) + 4)
        + 32 * MemberBit(rec, f, 8 * (b - 1) + 5)
        + 64 * MemberBit(rec, f, 8 * (b - 1) + 6)
        + 128 * MemberBit(rec, f, 8 * (b - 1) + 7)]

\* v modulo 2^width, and whether v < 2^width, for a width of whole bytes.
Narrowed(v, width) == [b \in 1..8 |-> IF 8 * b <= width THEN v[b] ELSE 0]
InRange(v, width) == \A b \in 1..8 : 8 * b > width => v[b] = 0

\* Two struct OSMNode values agree in every member.
NodesEqual(a, b) ==
    \A k \in 1..Len(OSMNodeLayout) :
        \A j \in 0..(OSMNodeLayout[k].width - 1) :
            Bit(a, OSMNodeLayout[k].off + j) = Bit(b, OSMNodeLayout[k].off + j)

\* The members osmway_set_to_valhalla assigns.
WayAssigned ==
    { "osmwayid_", "name_index_", "nodecount_", "surface_", "drive_on_right_",
      "road_class_", "use_", "has_user_tags_", "pedestrian_forward_",
      "pedestrian_backward_", "speed_" }

\* The fixed default profile of a way, every other member zero/false.
DefaultProfile(r) ==
    /\ FieldAsU64(r, surface_) = U64(3)
    /\ FieldAsU64(r, drive_on_right_) = U64(1)
    /\ FieldAsU64(r, road_class_) = U64(7)
    /\ FieldAsU64(r, use_) = U64(25)
    /\ FieldAsU64(r, pedestrian_forward_) = U64(1)
    /\ FieldAsU64(r, pedestrian_backward_) = U64(1)
    /\ FieldAsU64(r, speed_) = U64(25)
    /\ FieldAsU64(r, has_user_tags_) = U64(0)
    /\ \A k \in 1..Len(OSMWayLayout) :
          OSMWayLayout[k].name \notin WayAssigned => FieldZero(r, OSMWayLayout[k])

Complete == exported.written = exported.n * Sizeof(T)

\* ------------------------------------------------------------------ claims

\* C1. Round trip: importing a file that an export wrote completely yields
\* the exported count and, byte for byte, the records that were exported.
RoundTrip ==
    (pc = "ok" /\ last.op = "import" /\ Complete)
        => /\ last.count = exported.n
           /\ last.buffer = exported.recs

RoundTripWitness ==
    /\ pc = "ok" /\ last.op = "import" /\ Complete
    /\ last.count >= 2
    /\ last.buffer[1] # last.buffer[2]

\* C2. Size law: an import that returns normally read a file whose length
\* is an exact multiple of sizeof(T), and count is that length / sizeof(T);
\* any other length is rejected instead of being truncated.
SizeLaw ==
    (pc = "ok" /\ last.op = "import")
        => /\ Len(files[last.path].bytes) % Sizeof(T) = 0
           /\ last.count * Sizeof(T) = Len(files[last.path].bytes)

\* C3. Zero-initialization: right after new(count) the array has count
\* records, and right after new(count) or clear(array, count) every member
\* of each of the count records, bit fields included, is zero.
ZeroInitialization ==
    (pc = "ok" /\ last.op \in { "new", "clear" })
        => /\ last.op = "new" => Len(s) = last.n
           /\ \A i \in 1..last.n : AllFieldsZero(s[i], Layout(T))

ZeroInitializationWitness ==
    /\ pc = "ok" /\ last.op = "clear" /\ last.n = 1
    /\ Len(s) = 2
    /\ s[2] = ProducerRecord(Sizeof(T))

\* C4 as stated: after osmway_set_to_valhalla the slot holds the identity, the
\* name index and the node count exactly as supplied, the default profile, and
\* zero in every other member.
DefaultPopulationAsSupplied ==
    (pc = "ok" /\ T = "OSMWay" /\ last.op = "set_to_valhalla")
        => LET r == s[last.index + 1]
           IN  /\ FieldAsU64(r, osmwayid_) = last.arg[1]
               /\ FieldAsU64(r, name_index_) = last.arg[2]
               /\ FieldAsU64(r, nodecount_) = last.arg[3]
               /\ DefaultProfile(r)

\* C4 as amended: after osmway_set_to_valhalla the slot holds the identity as
\* supplied, the name index modulo 2^32 and the node count modulo 2^16 (the
\* supplied values when they fit), the default profile (surface 3, drive on
\* right, road class 7, use 25, pedestrian forward and backward, speed 25,
\* no user tags), and zero in every other member, whatever it held before.
DefaultPopulation ==
    (pc = "ok" /\ T = "OSMWay" /\ last.op = "set_to_valhalla")
        => LET r == s[last.index + 1]
           IN  /\ FieldAsU64(r, osmwayid_) = last.arg[1]
               /\ FieldAsU64(r, name_index_) = Narrowed(last.arg[2], 32)
               /\ FieldAsU64(r, nodecount_) = Narrowed(last.arg[3], 16)
               /\ DefaultProfile(r)

DefaultPopulationWitness ==
    /\ pc = "ok" /\ T = "OSMWay" /\ last.op = "set_to_valhalla"
    /\ last.arg = << U64(42), U64(7), U64(3) >>
    /\ FieldAsU64(s[last.index + 1], name_index_) = U64(7)
    /\ \E j \in 1..Len(s) : j # last.index + 1 /\ s[j] = ProducerRecord(Sizeof(T))

\* C5. Accessor symmetry: osmwaynode_get_node at the index osmwaynode_set_node
\* just wrote returns a node equal to the one written in every member; and the
\* returned value is a copy: no call other than get_node changes it.
AccessorSymmetry ==
    [][ /\ ( /\ pc = "ok" /\ pc' = "ok"
             /\ last.op = "set_node" /\ last'.op = "get_node"
             /\ last'.index = last.index )
           => NodesEqual(value', last.arg)
        /\ (pc' = "ok" /\ last'.op # "get_node") => value' = value
      ]_vars

AccessorSymmetryWitness ==
    /\ pc = "ok" /\ last.op = "get_node"
    /\ value \in Nodes
    /\ GetNode(s[last.index + 1]) = value

\* C6. Bounds: an accessor call with an index beyond the array is refused:
\* no accessor call runs into undefined behaviour or kills the process, and
\* none writes the memory after the array or reads it into the caller's node.
BoundsChecked ==
    last.op \in { "set_node", "get_node" }
        => (pc = "ok" /\ adjacent = AdjacentBytes(Sizeof(T)))

\* C7. I/O failure is surfaced: an export that returned its success value
\* opened the destination and wrote all count records; an import of a file
\* that cannot be opened comes back to the caller with an error result.
IOFailureSurfaced ==
    /\ (last.op = "export" /\ last.ret = {1})
          => (last.path \in Openable /\ Complete)
    /\ (last.op = "import" /\ ~files[last.path].exists)
          => (pc = "ok" /\ last.ret # {})

\* C8. File format: after an export that wrote everything, the file is exactly
\* count * sizeof(T) bytes, the exported records back to back in array order,
\* with nothing left of an earlier, longer file; and export leaves the array
\* as it was.
FileFormatState ==
    \A p \in Openable :
        (files[p].exists /\ Complete)
            => /\ Len(files[p].bytes) = exported.n * Sizeof(T)
               /\ \A i \in 1..exported.n : \A k \in 1..Sizeof(T) :
                     files[p].bytes[(i - 1) * Sizeof(T) + k] = exported.recs[i][k]

ExportLeavesArray ==
    (pc' = "ok" /\ last'.op = "export") => (s' = s /\ allocated' = allocated)

FileFormat == []FileFormatState /\ [][ExportLeavesArray]_vars

FileFormatWitness ==
    /\ pc = "ok" /\ last.op = "export" /\ Complete
    /\ exported.shrunk
    /\ exported.n >= 1
    /\ exported.recs[1] # Zeros(Sizeof(T))

\* C9. Slot isolation: osmwaynode_set_node at index i changes only the node
\* embedded in slot i (way_index and way_shape_node_index of slot i stay), and
\* set_node and set_to_valhalla at index i leave every other slot, the length
\* of the array and the memory after it unchanged.
SlotIsolation ==
    [][ (pc = "ok" /\ pc' = "ok" /\ last'.op \in { "set_node", "set_to_valhalla" })
           => /\ Len(s') = Len(s)
              /\ adjacent' = adjacent
              /\ \A j \in 1..Len(s) : j # last'.index + 1 => s'[j] = s[j]
              /\ last'.op = "set_node"
                    => /\ FieldAsU64(s'[last'.index + 1], way_index)
                            = FieldAsU64(s[last'.index + 1], way_index)
                       /\ FieldAsU64(s'[last'.index + 1], way_shape_node_index)
                            = FieldAsU64(s[last'.index + 1], way_shape_node_index)
      ]_vars

SlotIsolationWitness ==
    /\ pc = "ok" /\ last.op = "set_node"
    /\ Len(s) = 2
    /\ ~FieldZero(s[last.index + 1], way_index)
    /\ ~FieldZero(s[last.index + 1], way_shape_node_index)
    /\ GetNode(s[last.index + 1]) \in Nodes
    /\ s[2 - last.index] # Zeros(Sizeof(T))

\* C10. Narrowing: the default-populating constructors store osmid unchanged,
\* name_index modulo 2^32 and nodecount modulo 2^16 (way), way_index and
\* way_shape_node_index modulo 2^32 (way shape node); the stored value equals
\* the supplied one exactly when the input is below the member's width bound,
\* and an out-of-range input alters no other member.
Narrowing ==
    (pc = "ok" /\ last.op = "set_to_valhalla")
        => LET r == s[last.index + 1]
               a == last.arg
           IN  IF T = "OSMWay"
               THEN /\ FieldAsU64(r, osmwayid_) = a[1]
                    /\ FieldAsU64(r, name_index_) = Narrowed(a[2], 32)
                    /\ FieldAsU64(r, nodecount_) = Narrowed(a[3], 16)
                    /\ (FieldAsU64(r, name_index_) = a[2]) <=> InRange(a[2], 32)
                    /\ (FieldAsU64(r, nodecount_) = a[3]) <=> InRange(a[3], 16)
                    /\ DefaultProfile(r)
               ELSE /\ FieldAsU64(r, way_index) = Narrowed(a[1], 32)
                    /\ FieldAsU64(r, way_shape_node_index) = Narrowed(a[2], 32)
                    /\ (FieldAsU64(r, way_index) = a[1]) <=> InRange(a[1], 32)
                    /\ (FieldAsU64(r, way_shape_node_index) = a[2]) <=> InRange(a[2], 32)

NarrowingWitness ==
    /\ pc = "ok" /\ last.op = "set_to_valhalla" /\ T = "OSMWay"
    /\ ~InRange(last.arg[2], 32)
    /\ ~InRange(last.arg[3], 16)
    /\ FieldAsU64(s[last.index + 1], nodecount_) = U64(4)
====
